---- MODULE Spec2Model ----
(***************************************************************************)
(* Model of the GGUF metadata extraction subsystem of                      *)
(* llama_server_launcher_v5.py: the field decoder (get_field_value), the   *)
(* key resolution of _analyze_with_gguf_reader, _analyze_with_llama_cpp,   *)
(* the filename heuristic _guess_quantization, the orchestrator            *)
(* _run_gguf_analysis and the background scheduling of _start_analysis.    *)
(*                                                                         *)
(* A Python str is a sequence of one-character strings; a Python dict is a *)
(* function whose DOMAIN is its key set; None is the value None.           *)
(***************************************************************************)
EXTENDS Integers, Sequences, FiniteSets, TLC

VARIABLES
    GGUF_READER_AVAILABLE,  \* module global, set at import
    LLAMA_CPP_AVAILABLE,    \* module global, set at import
    fs,                     \* the file system: path -> file
    current_analysis_path,  \* self.current_analysis_path
    model_info_var,         \* self.model_info_var
    last_analysis_result,   \* self.last_analysis_result
    threads,                \* the analysis_worker threads started so far
    after_queue,            \* callbacks queued by root.after(0, ...)
    arg,                    \* the function the last step ran, with its argument
    ret                     \* what a function applied on its own returned

vars == <<GGUF_READER_AVAILABLE, LLAMA_CPP_AVAILABLE, fs, current_analysis_path,
          model_info_var, last_analysis_result, threads, after_queue, arg, ret>>

\* ret before and after the function under check was applied to arg
NotCalled == [called |-> FALSE]
Returned(x) == [called |-> TRUE, value |-> x]

(***************************************************************************)
(* Python str operations                                                   *)
(***************************************************************************)
LowerLetters == <<"a","b","c","d","e","f","g","h","i","j","k","l","m",
                  "n","o","p","q","r","s","t","u","v","w","x","y","z">>
UpperLetters == <<"A","B","C","D","E","F","G","H","I","J","K","L","M",
                  "N","O","P","Q","R","S","T","U","V","W","X","Y","Z">>

\* str.upper() on one ASCII character
UpperChar(c) ==
    IF \E i \in 1..Len(LowerLetters) : LowerLetters[i] = c
    THEN UpperLetters[CHOOSE i \in 1..Len(LowerLetters) : LowerLetters[i] = c]
    ELSE c

\* str.lower() on one ASCII character
LowerChar(c) ==
    IF \E i \in 1..Len(UpperLetters) : UpperLetters[i] = c
    THEN LowerLetters[CHOOSE i \in 1..Len(UpperLetters) : UpperLetters[i] = c]
    ELSE c

StrUpper(s) == [i \in 1..Len(s) |-> UpperChar(s[i])]
StrLower(s) == [i \in 1..Len(s) |-> LowerChar(s[i])]

\* s.replace(old, new) for one-character old and new
StrReplace(s, old, new) == [i \in 1..Len(s) |-> IF s[i] = old THEN new ELSE s[i]]

\* needle in hay
StrContains(needle, hay) ==
    \E i \in 0..(Len(hay) - Len(needle)) :
        SubSeq(hay, i + 1, i + Len(needle)) = needle

Unknown == <<"u","n","k","n","o","w","n">>

(***************************************************************************)
(* _guess_quantization                                                     *)
(***************************************************************************)
quant_types == <<
    <<"Q","8","_","0">>, <<"Q","6","_","K">>,
    <<"Q","5","_","K","_","M">>, <<"Q","5","_","K","_","S">>,
    <<"Q","5","_","0">>, <<"Q","5","_","1">>,
    <<"Q","4","_","K","_","M">>, <<"Q","4","_","K","_","S">>,
    <<"Q","4","_","0">>, <<"Q","4","_","1">>,
    <<"Q","3","_","K","_","M">>, <<"Q","3","_","K","_","S">>,
    <<"Q","3","_","K","_","L">>,
    <<"Q","2","_","K">>, <<"I","Q","4","_","X","S">>,
    <<"I","Q","3","_","X","X","S">>, <<"I","Q","2","_","X","X","S">>,
    <<"F","1","6">>, <<"F","3","2">>, <<"B","F","1","6">> >>

\* line 772 without its second test
QuantMatchesNoHyphen(qt, filename_upper) == StrContains(qt, filename_upper)

\* line 772: the condition of the loop's if
QuantMatches(qt, filename_upper) ==
    \/ StrContains(qt, filename_upper)
    \/ StrContains(StrReplace(qt, "_", "-"), filename_upper)

RECURSIVE GuessLoop(_, _)
\* the for loop from its i-th entry on
GuessLoop(filename_upper, i) ==
    IF i > Len(quant_types) THEN Unknown
    ELSE IF QuantMatches(quant_types[i], filename_upper) THEN quant_types[i]
    ELSE GuessLoop(filename_upper, i + 1)

GuessQuantization(filename) == GuessLoop(StrUpper(filename), 1)

(***************************************************************************)
(* Python values: a value whose type the code inspects carries its type.   *)
(***************************************************************************)
PyNone == [t |-> "none"]
PyInt(n) == [t |-> "int", v |-> n]
PyStr(s) == [t |-> "str", v |-> s]
PyList(l) == [t |-> "list", v |-> l]
PyBytes(b) == [t |-> "bytes", v |-> b]

Digits == <<"0","1","2","3","4","5","6","7","8","9">>

RECURSIVE NatToStr(_)
NatToStr(n) ==
    IF n < 10 THEN <<Digits[n + 1]>>
    ELSE NatToStr(n \div 10) \o <<Digits[(n % 10) + 1]>>

\* str(n) for an int
IntToStr(n) == IF n < 0 THEN <<"-">> \o NatToStr(-n) ELSE NatToStr(n)

RECURSIVE JoinInts(_)
JoinInts(l) ==
    IF Len(l) = 0 THEN <<>>
    ELSE IF Len(l) = 1 THEN IntToStr(l[1])
    ELSE IntToStr(l[1]) \o <<",", " ">> \o JoinInts(Tail(l))

\* the printable ASCII characters, chr(32) .. chr(126) (the grave accent,
\* chr(96), is written U+96)
AsciiPrintable == <<
    " ","!","\"","#","$","%","&","'","(",")","*","+",",","-",".","/",
    "0","1","2","3","4","5","6","7","8","9",":",";","<","=",">","?",
    "@","A","B","C","D","E","F","G","H","I","J","K","L","M","N","O",
    "P","Q","R","S","T","U","V","W","X","Y","Z","[","\\","]","^","_",
    "U+96","a","b","c","d","e","f","g","h","i","j","k","l","m","n","o",
    "p","q","r","s","t","u","v","w","x","y","z","{","|","}","~">>

\* chr(cp); a character outside printable ASCII is written U+<code point>
Chr(cp) == IF cp \in 32..126 THEN AsciiPrintable[cp - 31] ELSE "U+" \o ToString(cp)

\* str.isalpha() of chr(cp), for the code points below 0x100 and the block
\* U+2A00..U+2AFF (mathematical operators, no letters)
IsAlphaCp(cp) ==
    \/ cp \in 65..90
    \/ cp \in 97..122
    \/ cp \in {170, 181, 186}
    \/ (cp \in 192..255 /\ cp \notin {215, 247})

IsCont(b) == b \in 128..191

\* the bytes allowed right after lead byte b of a multi-byte sequence
SecondByteOk(b, c) ==
    CASE b = 224 -> c \in 160..191
      [] b = 237 -> c \in 128..159
      [] b = 240 -> c \in 144..191
      [] b = 244 -> c \in 128..143
      [] OTHER -> IsCont(c)

\* number of bytes of the sequence lead byte b starts; 0 for an invalid start byte
SeqLen(b) ==
    CASE b < 128 -> 1
      [] b \in 194..223 -> 2
      [] b \in 224..239 -> 3
      [] b \in 240..244 -> 4
      [] OTHER -> 0

\* bytes(...).decode('utf-8', errors='ignore'): the code points, from byte i on
RECURSIVE Utf8Ignore(_, _)
Utf8Ignore(bs, i) ==
    IF i > Len(bs) THEN <<>>
    ELSE
      LET b == bs[i]
          n == SeqLen(b)
          have == Len(bs) - i + 1
          ok2 == have >= 2 /\ SecondByteOk(b, bs[i + 1])
          ok3 == have >= 3 /\ IsCont(bs[i + 2])
          ok4 == have >= 4 /\ IsCont(bs[i + 3])
      IN  CASE n = 1 -> <<b>> \o Utf8Ignore(bs, i + 1)
            [] n = 0 -> Utf8Ignore(bs, i + 1)
            [] n = 2 ->
                 IF have < 2 THEN <<>>
                 ELSE IF ~ok2 THEN Utf8Ignore(bs, i + 1)
                 ELSE <<(b - 192) * 64 + (bs[i + 1] - 128)>> \o Utf8Ignore(bs, i + 2)
            [] n = 3 ->
                 IF have < 2 THEN <<>>
                 ELSE IF ~ok2 THEN Utf8Ignore(bs, i + 1)
                 ELSE IF have < 3 THEN <<>>
                 ELSE IF ~ok3 THEN Utf8Ignore(bs, i + 2)
                 ELSE <<(b - 224) * 4096 + (bs[i + 1] - 128) * 64 + (bs[i + 2] - 128)>>
                        \o Utf8Ignore(bs, i + 3)
            [] n = 4 ->
                 IF have < 2 THEN <<>>
                 ELSE IF ~ok2 THEN Utf8Ignore(bs, i + 1)
                 ELSE IF have < 3 THEN <<>>
                 ELSE IF ~ok3 THEN Utf8Ignore(bs, i + 2)
                 ELSE IF have < 4 THEN <<>>
                 ELSE IF ~ok4 THEN Utf8Ignore(bs, i + 3)
                 ELSE <<(b - 240) * 262144 + (bs[i + 1] - 128) * 4096
                          + (bs[i + 2] - 128) * 64 + (bs[i + 3] - 128)>>
                        \o Utf8Ignore(bs, i + 4)

\* the code points of bytes(bs).decode('utf-8', errors='ignore')
DecodeCps(bs) == Utf8Ignore(bs, 1)

\* the str of those code points
CpsToStr(cps) == [i \in 1..Len(cps) |-> Chr(cps[i])]

DecodeBytes(bs) == CpsToStr(DecodeCps(bs))

\* any(c.isalpha() for c in decoded)
HasAlpha(cps) == \E i \in 1..Len(cps) : IsAlphaCp(cps[i])

(***************************************************************************)
(* get_field_value                                                         *)
(*                                                                         *)
(* reader.fields is a sequence of [key, field] in the file's order.  A     *)
(* field is [kind, payload]:                                               *)
(*   "ndarray"    parts[-1] has tolist(); payload is what tolist() returns *)
(*                (a PyList of ints, a PyListNan: a list of ints followed  *)
(*                by a float nan, "list_inf": a list of ints followed by a *)
(*                float inf, PyBytes, or a scalar)                         *)
(*   "bytes"      parts[-1] is a bytes object; payload its bytes           *)
(*   "other"      parts[-1] is any other object; payload that object       *)
(*   "data_bytes" no parts, field.data is bytes; payload its bytes         *)
(*   "data"       no parts, field.data is any other object                 *)
(*   "bare"       neither parts nor data                                   *)
(*   "raises"     reading the field raises inside the try block            *)
(***************************************************************************)
PyListNan(l) == [t |-> "list_nan", v |-> l]
PyFloatNan == [t |-> "float", v |-> "nan"]

\* len(val) for what tolist() returned as a list
ListLen(val) ==
    IF val.t \in {"list_nan", "list_inf"} THEN Len(val.v) + 1 ELSE Len(val.v)

\* val[0]
ListFirst(val) ==
    IF Len(val.v) > 0 THEN PyInt(val.v[1])
    ELSE IF val.t = "list_inf" THEN [t |-> "float", v |-> "inf"]
    ELSE PyFloatNan

HasKey(fields, k) == \E i \in 1..Len(fields) : fields[i].key = k
Lookup(fields, k) == fields[CHOOSE i \in 1..Len(fields) : fields[i].key = k].field

\* lines 608-621 with all() in place of any() in the test for letters
DecodeMultiAllAlpha(val) ==
    IF val.t \in {"list_nan", "list_inf"} THEN val
    ELSE IF /\ \A i \in 1..Len(val.v) : 0 <= val.v[i] /\ val.v[i] < 256
            /\ \A i \in 1..Len(DecodeCps(val.v)) : IsAlphaCp(DecodeCps(val.v)[i])
         THEN PyStr(DecodeBytes(val.v))
    ELSE val

\* lines 608-621 without the test for letters at line 616
DecodeMultiAnyText(val) ==
    IF val.t \in {"list_nan", "list_inf"} THEN val
    ELSE IF \A i \in 1..Len(val.v) : 0 <= val.v[i] /\ val.v[i] < 256
         THEN PyStr(DecodeBytes(val.v))
    ELSE val

\* lines 608-621: val is a list of two or more elements
DecodeMulti(val) ==
    \* int(x) raises ValueError for nan and OverflowError for inf (line 618)
    IF val.t \in {"list_nan", "list_inf"} THEN val
    ELSE IF /\ \A i \in 1..Len(val.v) : 0 <= val.v[i] /\ val.v[i] < 256
            /\ HasAlpha(DecodeCps(val.v))
         THEN PyStr(DecodeBytes(val.v))
    ELSE val

\* lines 601-625 without the test for one element at lines 606-607
DecodeToListNoElide(val, default) ==
    IF val.t \in {"list", "list_nan", "list_inf"} THEN
        IF ListLen(val) = 0 THEN default
        ELSE DecodeMulti(val)
    ELSE IF val.t = "bytes" THEN PyStr(DecodeBytes(val.v))
    ELSE val

\* lines 601-625: val = data.tolist()
DecodeToList(val, default) ==
    IF val.t \in {"list", "list_nan", "list_inf"} THEN
        IF ListLen(val) = 0 THEN default
        ELSE IF ListLen(val) = 1 THEN ListFirst(val)
        ELSE DecodeMulti(val)
    ELSE IF val.t = "bytes" THEN PyStr(DecodeBytes(val.v))
    ELSE val

\* lines 596-638: the field is in reader.fields
DecodeField(field, default) ==
    CASE field.kind = "ndarray" -> DecodeToList(field.payload, default)
      [] field.kind = "bytes" -> PyStr(DecodeBytes(field.payload))
      [] field.kind = "other" -> field.payload
      [] field.kind = "data_bytes" -> PyStr(DecodeBytes(field.payload))
      [] field.kind = "data" -> field.payload
      [] OTHER -> default                          \* "bare", "raises"

get_field_value(fields, field_name, default) ==
    IF ~HasKey(fields, field_name) THEN default
    ELSE DecodeField(Lookup(fields, field_name), default)

(***************************************************************************)
(* str literals of the source                                              *)
(***************************************************************************)
S_general_architecture ==
    <<"g","e","n","e","r","a","l",".","a","r",
      "c","h","i","t","e","c","t","u","r","e">>
S_general_name == <<"g","e","n","e","r","a","l",".","n","a","m","e">>
S_general_context_length ==
    <<"g","e","n","e","r","a","l",".","c","o","n",
      "t","e","x","t","_","l","e","n","g","t","h">>
S_general_file_type ==
    <<"g","e","n","e","r","a","l",".",
      "f","i","l","e","_","t","y","p","e">>
S_general_quantization_version ==
    <<"g","e","n","e","r","a","l",".","q","u","a","n","t","i",
      "z","a","t","i","o","n","_","v","e","r","s","i","o","n">>
S_context_length ==
    <<"c","o","n","t","e","x","t",
      "_","l","e","n","g","t","h">>
S_block_count == <<"b","l","o","c","k","_","c","o","u","n","t">>
S_embedding_length ==
    <<"e","m","b","e","d","d","i","n",
      "g","_","l","e","n","g","t","h">>
S_head_count == <<"h","e","a","d","_","c","o","u","n","t">>
S_attention_head_count ==
    <<"a","t","t","e","n","t","i","o","n",".",
      "h","e","a","d","_","c","o","u","n","t">>
S_type_ == <<"t","y","p","e","_">>
S_nan == <<"n","a","n">>
S_None == <<"N","o","n","e">>

S_File_not_found ==
    <<"F","i","l","e"," ","n","o","t"," ","f","o","u","n","d">>
S_Permission_denied ==
    <<"P","e","r","m","i","s","s","i","o","n"," ","d","e","n","i","e","d">>
S_Analysis_failed ==
    <<"A","n","a","l","y","s","i","s"," ","f","a","i","l","e","d",":"," ">>
S_Metadata_extraction_failed ==
    <<"M","e","t","a","d","a","t","a"," ","e","x","t","r","a","c","t","i",
      "o","n"," ","f","a","i","l","e","d",":"," ">>
S_Install ==
    <<"I","n","s","t","a","l","l"," ","'","g","g","u","f","'"," ","o","r",
      " ","'","l","l","a","m","a","-","c","p","p","-","p","y","t","h","o",
      "n","'"," ","f","o","r"," ","m","e","t","a","d","a","t","a">>
S_Analyzing_model ==
    <<"A","n","a","l","y","z","i","n","g"," ","m","o","d","e","l",".",".",
      ".">>
S_No_model_selected ==
    <<"N","o"," ","m","o","d","e","l"," ","s","e","l","e","c","t","e","d">>
S_Arch ==
    <<"A","r","c","h",":"," ">>
S_Layers ==
    <<"L","a","y","e","r","s",":"," ">>
S_Ctx ==
    <<"C","t","x",":"," ">>
S_Size ==
    <<"S","i","z","e",":"," ">>
S_GB ==
    <<" ","G","B">>
S_Quant ==
    <<"Q","u","a","n","t",":"," ">>
S_Separator ==
    <<" ","U+9474"," ">>
S_Warn ==
    <<"U+9888"," ">>
S_QuestionMark ==
    <<"?">>
S_Unknown_capital ==
    <<"U","n","k","n","o","w","n">>
S_Input_output_error ==
    <<"[","E","r","r","n","o"," ","5","]"," ","I","n","p","u","t","/","o",
      "u","t","p","u","t"," ","e","r","r","o","r">>
S_bad_file ==
    <<"b","a","d"," ","f","i","l","e">>

\* str(v)
PyStrOf(v) ==
    CASE v.t = "str" -> v.v
      [] v.t = "int" -> IntToStr(v.v)
      [] v.t = "list" -> <<"[">> \o JoinInts(v.v) \o <<"]">>
      [] v.t = "list_nan" ->
           <<"[">> \o JoinInts(v.v) \o (IF Len(v.v) = 0 THEN <<>> ELSE <<",", " ">>)
                   \o S_nan \o <<"]">>
      [] v.t = "list_inf" ->
           <<"[">> \o JoinInts(v.v) \o (IF Len(v.v) = 0 THEN <<>> ELSE <<",", " ">>)
                   \o <<"i", "n", "f">> \o <<"]">>
      [] v.t = "float" -> IF v.v = "nan" THEN S_nan ELSE <<"i", "n", "f">>
      [] v.t = "none" -> S_None
      [] OTHER -> v.v                              \* an object: its str()

\* bool(v)
Truthy(v) ==
    CASE v.t = "str" -> Len(v.v) > 0
      [] v.t = "int" -> v.v # 0
      [] v.t = "list" -> Len(v.v) > 0
      [] v.t = "bytes" -> Len(v.v) > 0
      [] v.t = "none" -> FALSE
      [] OTHER -> TRUE

IsNone(v) == v.t = "none"

\* d[k] = v on a dict
Put(d, k, v) == [x \in DOMAIN d \cup {k} |-> IF x = k THEN v ELSE d[x]]

\* d.get(k, default)
DictGet(d, k, default) == IF k \in DOMAIN d THEN d[k] ELSE default

\* f"{prefix}.{name}"
DotKey(prefix, name) == prefix \o <<".">> \o name

(***************************************************************************)
(* A file of the file system is                                            *)
(*   [stat          "ok", or the exception class os.path.getsize raises,   *)
(*    size          its size, counted in MiB (2^20 bytes),                 *)
(*    reader_raises whether GGUFReader(path) raises,                       *)
(*    fields        reader.fields, a sequence of [key, field],             *)
(*    llama_raises  "no", "load" (Llama(...) raises) or "n_vocab"          *)
(*                  (llm.n_vocab() raises),                                *)
(*    metadata      llm.metadata, a dict,                                  *)
(*    n_vocab       what llm.n_vocab() returns]                            *)
(* A call's outcome is [exc, result, calls]: the exception class that      *)
(* escaped ("None" when the call returned), the result dict, and the       *)
(* external calls made, in order.                                          *)
(***************************************************************************)
NoExc == "None"

\* os.path.basename(path)
Basename(path) ==
    LET slashes == {i \in 1..Len(path) : path[i] = "/"}
        last == IF slashes = {} THEN 0 ELSE CHOOSE i \in slashes : \A j \in slashes : j <= i
    IN  SubSeq(path, last + 1, Len(path))

\* round(mib * 2^20 / 1024^3, 2), in hundredths of a GB (round half to even)
FileSizeGb(mib) ==
    LET q == (mib * 100) \div 1024
        r == (mib * 100) % 1024
    IN  IF 2 * r > 1024 THEN q + 1
        ELSE IF 2 * r = 1024 THEN q + (q % 2)
        ELSE q

InByteRange(l) == \A i \in 1..Len(l) : 0 <= l[i] /\ l[i] < 256

\* lines 642-643
ArchDecoded(arch) ==
    IF arch.t = "bytes" THEN PyStr(DecodeBytes(arch.v)) ELSE arch

\* lines 645-649
ArchListToStr(arch) ==
    IF arch.t = "list"
    THEN IF InByteRange(arch.v) THEN PyStr(DecodeBytes(arch.v))
         ELSE PyStr(PyStrOf(arch))                 \* ValueError: str(arch)
    ELSE IF arch.t = "list_nan" THEN PyStr(PyStrOf(arch))
    ELSE arch

\* lines 645-648: int(x) raises OverflowError for a float inf, which the
\* except clause at line 648 (ValueError, TypeError) lets through
ArchRaises(fields) ==
    ArchDecoded(get_field_value(fields, S_general_architecture, PyStr(Unknown))).t
        = "list_inf"

\* lines 641-649: the local variable arch
ArchVar(fields) ==
    ArchListToStr(ArchDecoded(
        get_field_value(fields, S_general_architecture, PyStr(Unknown))))

\* a if a is not None else b
Coalesce(a, b) == IF IsNone(a) THEN b ELSE a

\* the for loops with the break taken at the first key that contains needle,
\* whatever get_field_value returns for it
RECURSIVE ScanKeysFirstName(_, _, _)
ScanKeysFirstName(fields, needle, i) ==
    IF i > Len(fields) THEN PyNone
    ELSE IF StrContains(needle, fields[i].key)
         THEN get_field_value(fields, fields[i].key, PyNone)
    ELSE ScanKeysFirstName(fields, needle, i + 1)

\* the for loops of lines 662-666, 673-677, 683-687, 693-697, from key i on
RECURSIVE ScanKeys(_, _, _)
ScanKeys(fields, needle, i) ==
    IF i > Len(fields) THEN PyNone
    ELSE IF StrContains(needle, fields[i].key)
         THEN Coalesce(get_field_value(fields, fields[i].key, PyNone),
                       ScanKeys(fields, needle, i + 1))
    ELSE ScanKeys(fields, needle, i + 1)

OrUnknown(v) == Coalesce(v, PyStr(Unknown))

\* lines 657-667 with the two named lookups in the other order
ResolveContextLengthGeneralFirst(fields, arch) ==
    OrUnknown(Coalesce(Coalesce(
        get_field_value(fields, S_general_context_length, PyNone),
        get_field_value(fields, DotKey(PyStrOf(arch), S_context_length), PyNone)),
        ScanKeys(fields, S_context_length, 1)))

\* lines 657-667
ResolveContextLength(fields, arch) ==
    OrUnknown(Coalesce(Coalesce(
        get_field_value(fields, DotKey(PyStrOf(arch), S_context_length), PyNone),
        get_field_value(fields, S_general_context_length, PyNone)),
        ScanKeys(fields, S_context_length, 1)))

\* lines 670-678, 681-688, 691-698: key is the name tried under the
\* architecture, needle the substring searched for
ResolveArchThenScan(fields, arch, key, needle) ==
    OrUnknown(Coalesce(
        get_field_value(fields, DotKey(PyStrOf(arch), key), PyNone),
        ScanKeys(fields, needle, 1)))

\* lines 702-706
QuantOrFileType(quant, file_type) ==
    IF quant = Unknown /\ ~IsNone(file_type)
    THEN PyStr(S_type_ \o PyStrOf(file_type))
    ELSE PyStr(quant)

\* lines 700-707
ReaderQuantization(fields, filename) ==
    QuantOrFileType(GuessQuantization(filename),
                    get_field_value(fields, S_general_file_type, PyNone))

\* str(v) if v else fallback
StrOrFallback(v, fallback) ==
    IF Truthy(v) THEN PyStr(PyStrOf(v)) ELSE PyStr(fallback)

\* lines 650-707: what the strategy stores in result, arch being the local
\* variable of that name
ReaderFields(fields, result, arch) ==
    [architecture |-> StrOrFallback(arch, Unknown),
     model_name |->
        StrOrFallback(get_field_value(fields, S_general_name, PyStr(result["filename"])),
                      result["filename"]),
     context_length |-> ResolveContextLength(fields, arch),
     layer_count |-> ResolveArchThenScan(fields, arch, S_block_count, S_block_count),
     embedding_length |->
        ResolveArchThenScan(fields, arch, S_embedding_length, S_embedding_length),
     head_count |->
        ResolveArchThenScan(fields, arch, S_attention_head_count, S_head_count),
     quantization |-> ReaderQuantization(fields, result["filename"])]

\* lines 640-709: the dict once GGUFReader(model_path) has returned
ReaderResult(fields, result) ==
    ReaderFields(fields, result, ArchVar(fields)) @@ result

\* _analyze_with_gguf_reader
AnalyzeWithGgufReader(file, result) ==
    IF file.reader_raises
    THEN [exc |-> "Exception", result |-> result]
    ELSE IF ArchRaises(file.fields)
    THEN [exc |-> "OverflowError", result |-> result]
    ELSE [exc |-> NoExc, result |-> ReaderResult(file.fields, result)]

\* line 750
LlamaQuantization(metadata, filename) ==
    DictGet(metadata, S_general_quantization_version,
            PyStr(GuessQuantization(filename)))

\* lines 734-750: what is stored once result["architecture"] is arch
LlamaFields(metadata, result, arch) ==
    [architecture |-> arch,
     model_name |-> DictGet(metadata, S_general_name, PyStr(result["filename"])),
     context_length |->
        DictGet(metadata, DotKey(PyStrOf(arch), S_context_length),
                DictGet(metadata, S_general_context_length, PyStr(Unknown))),
     layer_count |->
        DictGet(metadata, DotKey(PyStrOf(arch), S_block_count), PyStr(Unknown)),
     embedding_length |->
        DictGet(metadata, DotKey(PyStrOf(arch), S_embedding_length), PyStr(Unknown)),
     head_count |->
        DictGet(metadata, DotKey(PyStrOf(arch), S_attention_head_count), PyStr(Unknown)),
     quantization |-> LlamaQuantization(metadata, result["filename"])]

\* lines 724-750: the dict before llm.n_vocab() is called
LlamaResult(metadata, result) ==
    LlamaFields(metadata, result,
                DictGet(metadata, S_general_architecture, PyStr(Unknown))) @@ result

\* _analyze_with_llama_cpp; result is one dict, updated in place, so what was
\* stored before an exception stays in it
AnalyzeWithLlamaCpp(file, result) ==
    CASE file.llama_raises = "load" ->
           [exc |-> "Exception", result |-> result]
      [] file.llama_raises = "n_vocab" ->
           [exc |-> "Exception", result |-> LlamaResult(file.metadata, result)]
      [] OTHER ->
           [exc |-> NoExc,
            result |-> Put(LlamaResult(file.metadata, result), "vocab_size", file.n_vocab)]

(***************************************************************************)
(* _run_gguf_analysis                                                      *)
(***************************************************************************)
ExceptionClasses ==
    {"FileNotFoundError", "PermissionError", "OSError", "Exception"}

\* whether "except cls" catches an exception of class exc
Catches(cls, exc) ==
    \/ cls = exc
    \/ cls = "Exception" /\ exc \in ExceptionClasses
    \/ cls = "OSError" /\ exc \in {"FileNotFoundError", "PermissionError"}

\* str(e) of an exception of class exc
ExcStr(exc) == IF exc = "OSError" THEN S_Input_output_error ELSE S_bad_file

\* lines 574-579 with the catch-all handler first
OuterHandlersCatchAllFirst ==
    << [cls |-> "Exception", error |-> S_Analysis_failed, str_e |-> TRUE],
       [cls |-> "FileNotFoundError", error |-> S_File_not_found, str_e |-> FALSE],
       [cls |-> "PermissionError", error |-> S_Permission_denied, str_e |-> FALSE] >>

\* lines 574-577 alone
OuterHandlersNoCatchAll ==
    << [cls |-> "FileNotFoundError", error |-> S_File_not_found, str_e |-> FALSE],
       [cls |-> "PermissionError", error |-> S_Permission_denied, str_e |-> FALSE] >>

\* lines 574-579: the handlers of the outer try; str_e tells whether str(e)
\* is appended to the message
OuterHandlers ==
    << [cls |-> "FileNotFoundError", error |-> S_File_not_found, str_e |-> FALSE],
       [cls |-> "PermissionError", error |-> S_Permission_denied, str_e |-> FALSE],
       [cls |-> "Exception", error |-> S_Analysis_failed, str_e |-> TRUE] >>

\* an exception exc leaves the outer try block: the first handler that
\* catches it sets result["error"]
RECURSIVE HandleOuter(_, _, _, _)
HandleOuter(handlers, exc, result, calls) ==
    IF Len(handlers) = 0 THEN [exc |-> exc, result |-> result, calls |-> calls]
    ELSE IF Catches(Head(handlers).cls, exc)
         THEN [exc |-> NoExc,
               result |-> Put(result, "error",
                              Head(handlers).error
                                \o (IF Head(handlers).str_e THEN ExcStr(exc) ELSE <<>>)),
               calls |-> calls]
    ELSE HandleOuter(Tail(handlers), exc, result, calls)

\* lines 570-581 with the warning never stored
NoLibraryNoWarning(result, calls) ==
    [exc |-> NoExc, result |-> result, calls |-> calls]

\* lines 570-581: no strategy returned
NoLibrary(result, calls) ==
    [exc |-> NoExc,
     result |-> IF ~GGUF_READER_AVAILABLE /\ ~LLAMA_CPP_AVAILABLE
                THEN Put(result, "warning", S_Install)
                ELSE result,
     calls |-> calls]

\* lines 565-568 with the failure stored as an error
AfterLlamaCppAsError(o, calls) ==
    IF o.exc = NoExc
    THEN [exc |-> NoExc, result |-> o.result, calls |-> calls]
    ELSE [exc |-> NoExc,
          result |-> Put(o.result, "error",
                         S_Metadata_extraction_failed \o ExcStr(o.exc)),
          calls |-> calls]

\* lines 565-568 with the warning stored in a record that lost the file size
AfterLlamaCppDropsSize(o, calls) ==
    IF o.exc = NoExc
    THEN [exc |-> NoExc, result |-> o.result, calls |-> calls]
    ELSE [exc |-> NoExc,
          result |-> Put([k \in DOMAIN o.result \ {"file_size_bytes", "file_size_gb"} |->
                            o.result[k]],
                         "warning", S_Metadata_extraction_failed \o ExcStr(o.exc)),
          calls |-> calls]

\* lines 565-568: o is how _analyze_with_llama_cpp ended
AfterLlamaCpp(o, calls) ==
    IF o.exc = NoExc
    THEN [exc |-> NoExc, result |-> o.result, calls |-> calls]
    ELSE [exc |-> NoExc,
          result |-> Put(o.result, "warning",
                         S_Metadata_extraction_failed \o ExcStr(o.exc)),
          calls |-> calls]

\* lines 561-572: the fallback strategy
TryLlamaCpp(file, result, calls) ==
    IF LLAMA_CPP_AVAILABLE
    THEN AfterLlamaCpp(AnalyzeWithLlamaCpp(file, result), Append(calls, "Llama"))
    ELSE NoLibrary(result, calls)

\* lines 556-559 with a reader failure returned at once
AfterGgufReaderNoFallback(o, file, result, calls) ==
    [exc |-> NoExc, result |-> o.result, calls |-> calls]

\* lines 556-572 with the full-load strategy run after the reader in any case
AfterGgufReaderAlwaysFallback(o, file, result, calls) ==
    TryLlamaCpp(file, o.result, calls)

\* lines 556-572 with a reader failure stored as an error and returned
AfterGgufReaderAsError(o, file, result, calls) ==
    IF o.exc = NoExc
    THEN [exc |-> NoExc, result |-> o.result, calls |-> calls]
    ELSE [exc |-> NoExc,
          result |-> Put(o.result, "error", S_Analysis_failed \o ExcStr(o.exc)),
          calls |-> calls]

\* lines 556-572: o is how _analyze_with_gguf_reader ended
AfterGgufReader(o, file, result, calls) ==
    IF o.exc = NoExc
    THEN [exc |-> NoExc, result |-> o.result, calls |-> calls]
    ELSE TryLlamaCpp(file, result, calls)

\* lines 552-572: the strategies in order
TryStrategies(file, result, calls) ==
    IF GGUF_READER_AVAILABLE
    THEN AfterGgufReader(AnalyzeWithGgufReader(file, result), file, result,
                         Append(calls, "GGUFReader"))
    ELSE TryLlamaCpp(file, result, calls)

\* lines 548-550: what a successful os.path.getsize adds to result
WithFileSize(result, size) ==
    [file_size_bytes |-> size, file_size_gb |-> FileSizeGb(size)] @@ result

\* lines 546-581: the outer try block after os.path.getsize was called
AfterGetsize(file, result, calls) ==
    IF file.stat # "ok"
    THEN HandleOuter(OuterHandlers, file.stat, result, calls)
    ELSE TryStrategies(file, WithFileSize(result, file.size), calls)

\* _run_gguf_analysis(model_path)
run_gguf_analysis(model_path) ==
    AfterGetsize(fs[model_path],
                 [path |-> model_path, filename |-> Basename(model_path)],
                 <<"getsize">>)

(***************************************************************************)
(* _update_ui_after_analysis                                               *)
(***************************************************************************)
\* str(h / 100) for the float round(x, 2) holds, h its hundredths
FloatStr(h) ==
    IntToStr(h \div 100) \o <<".">> \o
       (IF h % 100 = 0 THEN <<"0">>
        ELSE IF h % 10 = 0 THEN <<Digits[((h % 100) \div 10) + 1]>>
        ELSE <<Digits[((h % 100) \div 10) + 1], Digits[(h % 10) + 1]>>)

\* result.get(k) and result[k] != "unknown"
Known(result, k) ==
    /\ k \in DOMAIN result
    /\ Truthy(result[k])
    /\ result[k] # PyStr(Unknown)

\* lines 796-800
CtxDisplay(ctx) ==
    IF ctx.t = "int" /\ ctx.v >= 1024
    THEN IntToStr(ctx.v \div 1024) \o <<"K">>
    ELSE PyStrOf(ctx)

\* f"{result.get('file_size_gb', '?')}"
SizeOrQuestionMark(result) ==
    IF "file_size_gb" \in DOMAIN result THEN FloatStr(result["file_size_gb"])
    ELSE S_QuestionMark

\* lines 784-809: the list parts
SummaryParts(result) ==
    (IF Known(result, "architecture")
        THEN <<S_Arch \o PyStrOf(result["architecture"])>> ELSE <<>>)
    \o (IF Known(result, "layer_count")
        THEN <<S_Layers \o PyStrOf(result["layer_count"])>> ELSE <<>>)
    \o (IF Known(result, "context_length")
        THEN <<S_Ctx \o CtxDisplay(result["context_length"])>> ELSE <<>>)
    \o (IF "file_size_gb" \in DOMAIN result /\ result["file_size_gb"] # 0
        THEN <<S_Size \o FloatStr(result["file_size_gb"]) \o S_GB>> ELSE <<>>)
    \o (IF Known(result, "quantization")
        THEN <<S_Quant \o PyStrOf(result["quantization"])>> ELSE <<>>)

\* sep.join(parts)
RECURSIVE Join(_, _)
Join(sep, parts) ==
    IF Len(parts) = 0 THEN <<>>
    ELSE IF Len(parts) = 1 THEN parts[1]
    ELSE parts[1] \o sep \o Join(sep, Tail(parts))

\* lines 778-820: the text given to model_info_var.set
InfoText(result) ==
    IF "error" \in DOMAIN result
    THEN S_Warn \o DictGet(result, "filename", S_Unknown_capital)
                \o <<":", " ">> \o result["error"]
    ELSE IF "warning" \in DOMAIN result /\ Len(result["warning"]) > 0
    THEN S_Size \o SizeOrQuestionMark(result) \o S_GB \o S_Separator
                \o S_Warn \o result["warning"]
    ELSE IF Len(SummaryParts(result)) > 0
    THEN Join(S_Separator, SummaryParts(result))
    ELSE S_Size \o SizeOrQuestionMark(result) \o S_GB

\* lines 778-823: what last_analysis_result is after the call
LastResultAfter(result, last) ==
    IF "error" \in DOMAIN result THEN last ELSE result

(***************************************************************************)
(* _start_analysis and analysis_worker                                     *)
(*                                                                         *)
(* A thread is [path, pc, result]: the model_path of its closure, where it *)
(* is ("run": before line 833, "check": before line 835, "schedule":       *)
(* before the call of root.after in line 836, "done", or "dead" when an    *)
(* exception ended it) and the local variable result.                      *)
(***************************************************************************)
MaxThreads == 3
MaxPaths == 2

PathList == <<
    <<"/","m","/","a","-","Q","4","_","K","_","M",".","g","g","u","f">>,
    <<"/","m","/","b",".","g","g","u","f">>,
    <<"/","m","/","c","-","b","f","1","6",".","g","g","u","f">>,
    <<"/","d","-","q","8","-","0",".","g","g","u","f">> >>

Paths == {PathList[i] : i \in 1..MaxPaths}

\* lines 828-839 with the threads still in _run_gguf_analysis cancelled
StartAnalysisCancels(model_path) ==
    /\ current_analysis_path # PyStr(model_path)
    /\ Len(threads) < MaxThreads
    /\ current_analysis_path' = PyStr(model_path)
    /\ model_info_var' = S_Analyzing_model
    /\ threads' = Append([i \in 1..Len(threads) |->
                            IF threads[i].pc = "run"
                            THEN [threads[i] EXCEPT !.pc = "dead"] ELSE threads[i]],
                         [path |-> model_path, pc |-> "run", result |-> PyNone])
    /\ arg' = [fn |-> "_start_analysis", model_path |-> model_path]
    /\ UNCHANGED <<GGUF_READER_AVAILABLE, LLAMA_CPP_AVAILABLE, fs,
                   last_analysis_result, after_queue, ret>>

\* lines 828-839: _start_analysis(model_path), on the main thread
StartAnalysis(model_path) ==
    /\ current_analysis_path # PyStr(model_path)
    /\ Len(threads) < MaxThreads
    /\ current_analysis_path' = PyStr(model_path)
    /\ model_info_var' = S_Analyzing_model
    /\ threads' = Append(threads, [path |-> model_path, pc |-> "run", result |-> PyNone])
    /\ arg' = [fn |-> "_start_analysis", model_path |-> model_path]
    /\ UNCHANGED <<GGUF_READER_AVAILABLE, LLAMA_CPP_AVAILABLE, fs,
                   last_analysis_result, after_queue, ret>>

\* _start_analysis(model_path) for the current path without the test of line 828
StartAnalysisAgain(model_path) ==
    /\ current_analysis_path = PyStr(model_path)
    /\ Len(threads) < MaxThreads
    /\ model_info_var' = S_Analyzing_model
    /\ threads' = Append(threads, [path |-> model_path, pc |-> "run", result |-> PyNone])
    /\ arg' = [fn |-> "_start_analysis", model_path |-> model_path]
    /\ UNCHANGED <<GGUF_READER_AVAILABLE, LLAMA_CPP_AVAILABLE, fs, current_analysis_path,
                   last_analysis_result, after_queue, ret>>

\* line 828 false: _start_analysis(model_path) for the current path
StartAnalysisSamePath(model_path) ==
    /\ current_analysis_path = PyStr(model_path)
    /\ arg' = [fn |-> "_start_analysis", model_path |-> model_path]
    /\ UNCHANGED <<GGUF_READER_AVAILABLE, LLAMA_CPP_AVAILABLE, fs, current_analysis_path,
                   model_info_var, last_analysis_result, threads, after_queue, ret>>

\* the thread once line 833 has run: o is how _run_gguf_analysis ended
ThreadAfterRun(thread, o) ==
    IF o.exc = NoExc
    THEN [thread EXCEPT !.pc = "check", !.result = o.result]
    ELSE [thread EXCEPT !.pc = "dead"]

\* line 833: the worker runs the analysis
WorkerRun(i) ==
    /\ threads[i].pc = "run"
    /\ threads' = [threads EXCEPT
                     ![i] = ThreadAfterRun(threads[i], run_gguf_analysis(threads[i].path))]
    /\ arg' = [fn |-> "analysis_worker", model_path |-> threads[i].path]
    /\ UNCHANGED <<GGUF_READER_AVAILABLE, LLAMA_CPP_AVAILABLE, fs, current_analysis_path,
                   model_info_var, last_analysis_result, after_queue, ret>>

\* line 835 with the worker clearing self.current_analysis_path once it has
\* found its own path in it
WorkerCheckClearsPath(i) ==
    /\ threads[i].pc = "check"
    /\ threads' = [threads EXCEPT ![i].pc =
                      IF current_analysis_path = PyStr(threads[i].path)
                      THEN "schedule" ELSE "done"]
    /\ current_analysis_path' =
          IF current_analysis_path = PyStr(threads[i].path) THEN PyNone
          ELSE current_analysis_path
    /\ arg' = [fn |-> "analysis_worker", model_path |-> threads[i].path]
    /\ UNCHANGED <<GGUF_READER_AVAILABLE, LLAMA_CPP_AVAILABLE, fs,
                   model_info_var, last_analysis_result, after_queue, ret>>

\* line 835: the worker reads self.current_analysis_path
WorkerCheck(i) ==
    /\ threads[i].pc = "check"
    /\ threads' = [threads EXCEPT ![i].pc =
                      IF current_analysis_path = PyStr(threads[i].path)
                      THEN "schedule" ELSE "done"]
    /\ arg' = [fn |-> "analysis_worker", model_path |-> threads[i].path]
    /\ UNCHANGED <<GGUF_READER_AVAILABLE, LLAMA_CPP_AVAILABLE, fs, current_analysis_path,
                   model_info_var, last_analysis_result, after_queue, ret>>

\* line 836: the worker queues the callback with root.after(0, ...)
WorkerSchedule(i) ==
    /\ threads[i].pc = "schedule"
    /\ after_queue' = Append(after_queue, threads[i].result)
    /\ threads' = [threads EXCEPT ![i].pc = "done"]
    /\ arg' = [fn |-> "analysis_worker", model_path |-> threads[i].path]
    /\ UNCHANGED <<GGUF_READER_AVAILABLE, LLAMA_CPP_AVAILABLE, fs, current_analysis_path,
                   model_info_var, last_analysis_result, ret>>

\* the main loop runs the oldest queued callback:
\* _update_ui_after_analysis(result)
RunCallback ==
    /\ Len(after_queue) > 0
    /\ model_info_var' = InfoText(Head(after_queue))
    /\ last_analysis_result' = LastResultAfter(Head(after_queue), last_analysis_result)
    /\ after_queue' = Tail(after_queue)
    /\ arg' = [fn |-> "_update_ui_after_analysis", result |-> Head(after_queue)]
    /\ UNCHANGED <<GGUF_READER_AVAILABLE, LLAMA_CPP_AVAILABLE, fs, current_analysis_path,
                   threads, ret>>

\* lines 154-157: the scheduler's fields after __init__
SchedulerIdle ==
    /\ current_analysis_path = PyNone
    /\ model_info_var = S_No_model_selected
    /\ last_analysis_result = PyNone
    /\ threads = <<>>
    /\ after_queue = <<>>

NoArg == [fn |-> "none"]

(***************************************************************************)
(* The files and metadata the model draws its inputs from                  *)
(***************************************************************************)
Entry(key, kind, payload) == [key |-> key, field |-> [kind |-> kind, payload |-> payload]]

B_llama == <<108,108,97,109,97>>
S_llama == <<"l","l","a","m","a">>
S_vit == <<"v","i","t">>
S_4096 == <<"4","0","9","6">>
S_2048 == <<"2","0","4","8">>
S_32 == <<"3","2">>
S_64 == <<"6","4">>
S_8 == <<"8">>
S_2 == <<"2">>

\* entries a file's key/value section is made of
FieldPool == <<
    Entry(S_general_architecture, "ndarray", PyList(B_llama)),
    Entry(DotKey(S_llama, S_context_length), "ndarray", PyList(<<4096>>)),
    Entry(S_general_context_length, "ndarray", PyList(<<2048>>)),
    Entry(DotKey(S_vit, S_context_length), "ndarray", PyList(<<77>>)),
    Entry(DotKey(S_llama, S_context_length), "ndarray", PyList(<<>>)),
    Entry(DotKey(S_llama, S_block_count), "ndarray", PyList(<<32>>)),
    Entry(DotKey(S_vit, S_block_count), "ndarray", PyList(<<12>>)),
    Entry(DotKey(S_llama, S_embedding_length), "ndarray", PyList(<<64>>)),
    Entry(DotKey(S_llama, S_attention_head_count), "ndarray", PyList(<<8>>)),
    Entry(DotKey(S_llama, S_attention_head_count) \o <<"_","k","v">>, "ndarray",
          PyList(<<2>>)),
    Entry(S_general_file_type, "ndarray", PyList(<<7>>)),
    Entry(S_general_architecture, "ndarray", PyList(<<49, 50>>)),
    Entry(S_general_context_length, "raises", PyNone),
    Entry(S_general_architecture, "ndarray", [t |-> "list_inf", v |-> <<1>>]) >>

NameEntry == Entry(S_general_name, "ndarray", PyList(<<109, 55>>))

FieldsOf(idx) == [i \in 1..Len(idx) |-> FieldPool[idx[i]]]

\* key/value sections of whole files
FieldSamples ==
    { <<>>,
      <<NameEntry>> \o FieldsOf(<<1, 2, 6, 8, 9, 10, 11>>),
      FieldsOf(<<1, 6>>),
      FieldsOf(<<3, 7>>),
      FieldsOf(<<11>>) }

\* what llm.metadata can be
MetaFull ==
    (S_general_architecture :> PyStr(S_llama))
    @@ (DotKey(S_llama, S_context_length) :> PyStr(S_4096))
    @@ (DotKey(S_llama, S_block_count) :> PyStr(S_32))
    @@ (DotKey(S_llama, S_embedding_length) :> PyStr(S_64))
    @@ (DotKey(S_llama, S_attention_head_count) :> PyStr(S_8))

EmptyDict == [k \in {} |-> PyNone]

MetaSamples ==
    { EmptyDict,
      MetaFull,
      MetaFull @@ (S_general_quantization_version :> PyStr(S_2)),
      MetaFull @@ (S_general_file_type :> PyStr(<<"7">>)),
      (S_general_context_length :> PyStr(S_2048)) }

\* file sizes, in MiB
Sizes == {0, 640, 4301}

OkFiles ==
    [stat : {"ok"}, size : Sizes, reader_raises : BOOLEAN, fields : FieldSamples,
     llama_raises : {"no", "load", "n_vocab"}, metadata : MetaSamples, n_vocab : {32000}]

\* a file os.path.getsize fails on
NoFile(exc) ==
    [stat |-> exc, size |-> 0, reader_raises |-> TRUE, fields |-> <<>>,
     llama_raises |-> "load", metadata |-> EmptyDict, n_vocab |-> 0]

Files == OkFiles \cup {NoFile(exc) : exc \in {"FileNotFoundError", "PermissionError", "OSError"}}

\* a file both strategies read in full
GoodFile ==
    [stat |-> "ok", size |-> 4301, reader_raises |-> FALSE,
     fields |-> <<NameEntry>> \o FieldsOf(<<1, 2, 6, 8, 9, 10, 11>>),
     llama_raises |-> "no", metadata |-> MetaFull, n_vocab |-> 32000]

SchedFiles == {GoodFile, NoFile("FileNotFoundError")}

(***************************************************************************)
(* Spec: selections on the main thread, worker threads, queued callbacks   *)
(***************************************************************************)
Init ==
    /\ GGUF_READER_AVAILABLE \in BOOLEAN
    /\ LLAMA_CPP_AVAILABLE \in BOOLEAN
    /\ fs \in [Paths -> SchedFiles]
    /\ SchedulerIdle
    /\ arg = NoArg
    /\ ret = NotCalled

Next ==
    \/ \E p \in Paths : StartAnalysis(p)
    \/ \E p \in Paths : StartAnalysisSamePath(p)
    \/ \E i \in 1..Len(threads) : WorkerRun(i)
    \/ \E i \in 1..Len(threads) : WorkerCheck(i)
    \/ \E i \in 1..Len(threads) : WorkerSchedule(i)
    \/ RunCallback

Spec == Init /\ [][Next]_vars

\* both libraries are importable, the second path is missing, the others are
\* files both strategies read
InitSelect ==
    /\ GGUF_READER_AVAILABLE = TRUE
    /\ LLAMA_CPP_AVAILABLE = TRUE
    /\ fs = [p \in Paths |-> IF p = PathList[2] THEN NoFile("FileNotFoundError")
                                               ELSE GoodFile]
    /\ SchedulerIdle
    /\ arg = NoArg
    /\ ret = NotCalled

SpecSelect == InitSelect /\ [][Next]_vars

\* thread i is inside _run_gguf_analysis (line 833)
Analysing(i) == i \in 1..Len(threads) /\ threads[i].pc = "run"

\* a step of thread i after _run_gguf_analysis has returned (lines 835-836)
WorkerAfterRun(i) ==
    /\ i \in 1..Len(threads)
    /\ (WorkerCheck(i) \/ WorkerSchedule(i))

\* the number of selections in a behaviour of SpecFair
MaxFairThreads == 2

NextFair == Next /\ Len(threads') <= MaxFairThreads

\* every started thread is scheduled and the strategies return or raise; the
\* Tk main loop runs the callbacks queued with root.after.  WorkerRun(i) is
\* enabled exactly while Analysing(i) and its step ends Analysing(i), so
\* []<>~Analysing(i) is WF_vars(WorkerRun(i)).
SpecFair ==
    /\ InitSelect
    /\ [][NextFair]_vars
    /\ \A i \in 1..MaxFairThreads : []<>~Analysing(i)
    /\ \A i \in 1..MaxFairThreads : WF_vars(WorkerAfterRun(i))
    /\ WF_vars(RunCallback)

(***************************************************************************)
(* SpecOrch: _run_gguf_analysis applied to one file                        *)
(***************************************************************************)
InitOrch ==
    /\ GGUF_READER_AVAILABLE \in BOOLEAN
    /\ LLAMA_CPP_AVAILABLE \in BOOLEAN
    /\ \E p \in Paths, f \in Files :
          /\ fs = (p :> f)
          /\ arg = [fn |-> "_run_gguf_analysis", model_path |-> p]
    /\ SchedulerIdle
    /\ ret = NotCalled

CallRunGgufAnalysis ==
    /\ arg.fn = "_run_gguf_analysis"
    /\ ret = NotCalled
    /\ ret' = Returned(run_gguf_analysis(arg.model_path))
    /\ UNCHANGED <<GGUF_READER_AVAILABLE, LLAMA_CPP_AVAILABLE, fs, current_analysis_path,
                   model_info_var, last_analysis_result, threads, after_queue, arg>>

NextOrch == CallRunGgufAnalysis

SpecOrch == InitOrch /\ [][NextOrch]_vars

(***************************************************************************)
(* SpecReader: _analyze_with_gguf_reader applied to one key/value section  *)
(***************************************************************************)
MaxFields == 3

\* the sequences of at most n pool entries with distinct keys
RECURSIVE IdxSeqs(_)
IdxSeqs(n) ==
    IF n = 0 THEN {<<>>}
    ELSE LET prev == IdxSeqs(n - 1)
         IN  prev \cup
             UNION { { Append(s, i) :
                         i \in {j \in 1..Len(FieldPool) :
                                  \A k \in 1..(n - 1) :
                                     FieldPool[s[k]].key # FieldPool[j].key} } :
                     s \in {x \in prev : Len(x) = n - 1} }

\* the dict _run_gguf_analysis hands to a strategy
ResultBefore(model_path, file) ==
    [path |-> model_path, filename |-> Basename(model_path),
     file_size_bytes |-> file.size, file_size_gb |-> FileSizeGb(file.size)]

\* a filename with a catalog token and one without
ReaderPaths == {PathList[1], PathList[2]}

InitReader ==
    /\ GGUF_READER_AVAILABLE = TRUE
    /\ LLAMA_CPP_AVAILABLE = FALSE
    /\ \E p \in ReaderPaths, idx \in IdxSeqs(MaxFields) :
          /\ fs = (p :> [GoodFile EXCEPT !.fields = FieldsOf(idx)])
          /\ arg = [fn |-> "_analyze_with_gguf_reader", model_path |-> p]
    /\ SchedulerIdle
    /\ ret = NotCalled

CallAnalyzeWithGgufReader ==
    /\ arg.fn = "_analyze_with_gguf_reader"
    /\ ret = NotCalled
    /\ ret' = Returned(AnalyzeWithGgufReader(fs[arg.model_path],
                          ResultBefore(arg.model_path, fs[arg.model_path])))
    /\ UNCHANGED <<GGUF_READER_AVAILABLE, LLAMA_CPP_AVAILABLE, fs, current_analysis_path,
                   model_info_var, last_analysis_result, threads, after_queue, arg>>

NextReader == CallAnalyzeWithGgufReader

SpecReader == InitReader /\ [][NextReader]_vars

(***************************************************************************)
(* SpecQuant: _guess_quantization applied to one filename                  *)
(***************************************************************************)
MaxNames == 3

NameList == <<
    <<"m","o","d","e","l">>,
    <<"b","f","1","6">>,
    <<"Q","w","e","n","-","7","B">>,
    <<"q","4","_","0","-","x">> >>

\* a catalog token as filenames spell it
Spellings(tok) ==
    { tok, StrLower(tok), StrReplace(tok, "_", "-"),
      StrLower(StrReplace(tok, "_", "-")) }

\* tokens that are not in the catalog
OtherTokens == { <<>>, <<"Q","4","_","K">>, <<"Q","7","_","0">> }

QuantFilenames ==
    { NameList[n] \o <<"-">> \o sp \o <<".","g","g","u","f">> :
        n \in 1..MaxNames,
        sp \in UNION { Spellings(t) :
                         t \in {quant_types[i] : i \in 1..Len(quant_types)}
                               \cup OtherTokens } }

InitQuant ==
    /\ GGUF_READER_AVAILABLE = TRUE
    /\ LLAMA_CPP_AVAILABLE \in BOOLEAN
    /\ fs = EmptyDict
    /\ arg \in [fn : {"_guess_quantization"}, filename : QuantFilenames]
    /\ SchedulerIdle
    /\ ret = NotCalled

CallGuessQuantization ==
    /\ arg.fn = "_guess_quantization"
    /\ ret = NotCalled
    /\ ret' = Returned(GuessQuantization(arg.filename))
    /\ UNCHANGED <<GGUF_READER_AVAILABLE, LLAMA_CPP_AVAILABLE, fs, current_analysis_path,
                   model_info_var, last_analysis_result, threads, after_queue, arg>>

NextQuant == CallGuessQuantization

SpecQuant == InitQuant /\ [][NextQuant]_vars

(***************************************************************************)
(* SpecDecode: get_field_value applied to one field                        *)
(***************************************************************************)
MaxArrayLen == 3

\* the values of array elements
ElemValues == {-1, 0, 49, 65, 122, 169, 195, 226, 255, 256}

RECURSIVE IntSeqs(_)
IntSeqs(n) ==
    IF n = 0 THEN {<<>>}
    ELSE LET prev == IntSeqs(n - 1)
         IN  prev \cup { Append(s, x) : s \in {y \in prev : Len(y) = n - 1},
                                        x \in ElemValues }

ByteSeqs(n) == {s \in IntSeqs(n) : InByteRange(s)}

DecoderFields ==
    { [kind |-> "ndarray", payload |-> PyList(l)] : l \in IntSeqs(MaxArrayLen) }
    \cup { [kind |-> "ndarray", payload |-> PyListNan(l)] : l \in IntSeqs(1) }
    \cup { [kind |-> "ndarray", payload |-> [t |-> "list_inf", v |-> l]] :
             l \in IntSeqs(1) }
    \cup { [kind |-> "ndarray", payload |-> PyBytes(l)] : l \in ByteSeqs(2) }
    \cup { [kind |-> "ndarray", payload |-> PyInt(7)] }
    \cup { [kind |-> k, payload |-> l] : k \in {"bytes", "data_bytes"}, l \in ByteSeqs(2) }
    \cup { [kind |-> k, payload |-> x] :
             k \in {"other", "data"}, x \in {PyInt(7), PyStr(S_llama), PyNone} }
    \cup { [kind |-> k, payload |-> PyNone] : k \in {"bare", "raises"} }

InitDecode ==
    /\ GGUF_READER_AVAILABLE = TRUE
    /\ LLAMA_CPP_AVAILABLE \in BOOLEAN
    /\ fs = EmptyDict
    /\ arg \in [fn : {"get_field_value"}, field : DecoderFields]
    /\ SchedulerIdle
    /\ ret = NotCalled

CallGetFieldValue ==
    /\ arg.fn = "get_field_value"
    /\ ret = NotCalled
    /\ ret' = Returned(get_field_value(<<[key |-> S_general_name, field |-> arg.field]>>,
                                       S_general_name, PyNone))
    /\ UNCHANGED <<GGUF_READER_AVAILABLE, LLAMA_CPP_AVAILABLE, fs, current_analysis_path,
                   model_info_var, last_analysis_result, threads, after_queue, arg>>

NextDecode == CallGetFieldValue

SpecDecode == InitDecode /\ [][NextDecode]_vars

(***************************************************************************)
(* SpecUi: _update_ui_after_analysis applied to one record                 *)
(***************************************************************************)
S_qwen2 == <<"q","w","e","n","2">>
S_type_7 == <<"t","y","p","e","_","7">>

\* lines 534-537: the record before os.path.getsize
BareRecord(model_path) ==
    ("path" :> model_path) @@ ("filename" :> Basename(model_path))

\* lines 575-581: the records the outer handlers return
ErrorRecords ==
    { Put(BareRecord(p), "error", e) :
        p \in Paths,
        e \in {S_File_not_found, S_Permission_denied, S_Analysis_failed \o S_bad_file} }

\* lines 544-545: the record once the size is stored; sizes 3, 640 and 4301 MiB
SizedRecords ==
    { WithFileSize(BareRecord(p), s) : p \in Paths, s \in {3, 640, 4301} }

\* what a strategy stores in the fields the summary shows
ShownFieldValues ==
    [architecture : {PyStr(S_qwen2), PyStr(Unknown)},
     layer_count : {PyInt(28), PyStr(S_32), PyStr(Unknown)},
     context_length : {PyInt(32768), PyInt(1024), PyInt(1023), PyInt(0),
                       PyStr(S_4096), PyStr(Unknown)},
     quantization : {PyStr(quant_types[7]), PyStr(S_type_7), PyStr(Unknown)}]

\* a strategy has stored its fields
AnalysedRecords ==
    { Put(Put(Put(Put(r, "architecture", f.architecture), "layer_count", f.layer_count),
              "context_length", f.context_length), "quantization", f.quantization) :
        r \in SizedRecords, f \in ShownFieldValues }

\* lines 566-568 and 571-574: a warning is stored
WithWarning(records) ==
    { Put(r, "warning", w) : r \in records,
                             w \in {S_Install, S_Metadata_extraction_failed \o S_bad_file} }

\* the records _run_gguf_analysis returns
UiRecords ==
    ErrorRecords \cup SizedRecords \cup AnalysedRecords
    \cup WithWarning(SizedRecords) \cup WithWarning(AnalysedRecords)

InitUi ==
    /\ GGUF_READER_AVAILABLE = TRUE
    /\ LLAMA_CPP_AVAILABLE = TRUE
    /\ fs = EmptyDict
    /\ arg \in [fn : {"_update_ui_after_analysis"}, result : UiRecords]
    /\ SchedulerIdle
    /\ ret = NotCalled

\* lines 776-823
CallUpdateUiAfterAnalysis ==
    /\ arg.fn = "_update_ui_after_analysis"
    /\ ret = NotCalled
    /\ model_info_var' = InfoText(arg.result)
    /\ last_analysis_result' = LastResultAfter(arg.result, last_analysis_result)
    /\ ret' = Returned(PyNone)
    /\ UNCHANGED <<GGUF_READER_AVAILABLE, LLAMA_CPP_AVAILABLE, fs, current_analysis_path,
                   threads, after_queue, arg>>

NextUi == CallUpdateUiAfterAnalysis

SpecUi == InitUi /\ [][NextUi]_vars

(***************************************************************************)
(* Claims on _guess_quantization, under SpecQuant                          *)
(***************************************************************************)
Q4_K_M == <<"Q","4","_","K","_","M">>

\* tok occurs in filename when letter case is ignored
OccursIgnoringCase(tok, filename) ==
    \E i \in 0..(Len(filename) - Len(tok)) :
        \A k \in 1..Len(tok) : LowerChar(filename[i + k]) = LowerChar(tok[k])

\* tok with every underscore turned into a hyphen
Hyphenated(tok) == [k \in 1..Len(tok) |-> IF tok[k] = "_" THEN "-" ELSE tok[k]]

\* the catalog entries found in filename, as written or hyphenated
CatalogHits(filename) ==
    { i \in 1..Len(quant_types) :
        \/ OccursIgnoringCase(quant_types[i], filename)
        \/ OccursIgnoringCase(Hyphenated(quant_types[i]), filename) }

\* C9: the Quantization Inferencer returns the first catalog entry that
\* occurs in the filename, case-insensitively, as written or with its
\* underscores replaced by hyphens; with several entries matching the one
\* earliest in the catalog wins, with none it is "unknown"; both
\* "model-Q4_K_M.gguf" and "model-q4-k-m.gguf" give "Q4_K_M".
C9_FirstCatalogEntryWins ==
    ret.called =>
        /\ CatalogHits(arg.filename) = {} => ret.value = Unknown
        /\ \A i \in CatalogHits(arg.filename) :
              (\A j \in CatalogHits(arg.filename) : i <= j) => ret.value = quant_types[i]
        /\ arg.filename = <<"m","o","d","e","l","-","Q","4","_","K","_","M",
                            ".","g","g","u","f">> => ret.value = Q4_K_M
        /\ arg.filename = <<"m","o","d","e","l","-","q","4","-","k","-","m",
                            ".","g","g","u","f">> => ret.value = Q4_K_M

\* a lower-case hyphenated token in a filename that holds two later entries too
C9_Witness ==
    /\ ret.called
    /\ arg.filename = <<"b","f","1","6","-","q","4","-","k","-","m",".","g","g","u","f">>
    /\ Cardinality(CatalogHits(arg.filename)) = 3
    /\ ret.value = Q4_K_M

(***************************************************************************)
(* Claims on get_field_value, under SpecDecode                             *)
(***************************************************************************)
\* the field is a multi-element array of integers in 0..255
IsMultiByteArray(field) ==
    /\ field.kind = "ndarray"
    /\ field.payload.t = "list"
    /\ Len(field.payload.v) >= 2
    /\ \A i \in 1..Len(field.payload.v) : field.payload.v[i] \in 0..255

\* C10: a multi-element array of integers in 0..255 whose UTF-8 decoding
\* holds at least one alphabetic character is returned as the decoded
\* string, not as an array.
C10_TextArrayDecodesToString ==
    (ret.called /\ IsMultiByteArray(arg.field)
       /\ HasAlpha(DecodeCps(arg.field.payload.v)))
    => /\ ret.value.t = "str"
       /\ ret.value.v = DecodeBytes(arg.field.payload.v)

\* a two-byte letter followed by a digit: <<195, 169, 49>>
C10_Witness ==
    /\ ret.called
    /\ arg.field = [kind |-> "ndarray", payload |-> PyList(<<195, 169, 49>>)]
    /\ ret.value = PyStr(<<"U+233", "1">>)

(***************************************************************************)
(* Claims on the key resolution of _analyze_with_gguf_reader, under        *)
(* SpecReader                                                              *)
(***************************************************************************)
ReaderFieldsIn == fs[arg.model_path].fields

\* the decoded value of key k, None when k is absent or has no value
ValueOf(k) == get_field_value(ReaderFieldsIn, k, PyNone)

\* the detected architecture
DetectedArch == PyStrOf(ArchVar(ReaderFieldsIn))

\* the keys with a value whose name contains needle, by position
ScanHits(needle) ==
    { i \in 1..Len(ReaderFieldsIn) :
        /\ \E j \in 0..(Len(ReaderFieldsIn[i].key) - Len(needle)) :
              \A k \in 1..Len(needle) : ReaderFieldsIn[i].key[j + k] = needle[k]
        /\ ~IsNone(ValueOf(ReaderFieldsIn[i].key)) }

\* got is what the stages give for the key named under the architecture,
\* the sequence generic of general keys, and the scan for needle
ResolvedBy(got, archKey, generic, needle) ==
    IF ~IsNone(ValueOf(DotKey(DetectedArch, archKey)))
    THEN got = ValueOf(DotKey(DetectedArch, archKey))
    ELSE IF \E g \in 1..Len(generic) : ~IsNone(ValueOf(generic[g]))
    THEN got = ValueOf(generic[CHOOSE g \in 1..Len(generic) : ~IsNone(ValueOf(generic[g]))])
    ELSE IF ScanHits(needle) # {}
    THEN \A i \in ScanHits(needle) :
            (\A j \in ScanHits(needle) : i <= j) => got = ValueOf(ReaderFieldsIn[i].key)
    ELSE got = PyStr(Unknown)

\* C8: a semantic field resolves to the value of "<arch>.<field>" when that
\* key has one; otherwise to that of "general.<field>" (context length
\* only); otherwise to the value the substring scan finds; and to "unknown"
\* when no stage yields a value.  (A key has a value when get_field_value
\* does not return None for it.)  Stated for the calls in which the conversion
\* of the architecture at lines 645-649 does not raise.
C8_ResolverPrecedence ==
    ret.called /\ ~ArchRaises(ReaderFieldsIn) =>
        /\ ret.value.exc = NoExc
        /\ ResolvedBy(ret.value.result["context_length"], S_context_length,
                      <<S_general_context_length>>, S_context_length)
        /\ ResolvedBy(ret.value.result["layer_count"], S_block_count, <<>>, S_block_count)
        /\ ResolvedBy(ret.value.result["embedding_length"], S_embedding_length, <<>>,
                      S_embedding_length)
        /\ ResolvedBy(ret.value.result["head_count"], S_attention_head_count, <<>>,
                      S_head_count)

\* architecture "llama", general.context_length = 2048 listed before
\* llama.context_length = 4096
C8_Witness ==
    /\ ret.called
    /\ ReaderFieldsIn = FieldsOf(<<3, 1, 2>>)
    /\ DetectedArch = S_llama
    /\ ret.value.result["context_length"] = PyInt(4096)

(***************************************************************************)
(* Claims on _run_gguf_analysis, under SpecOrch                            *)
(***************************************************************************)
AnalysedFile == fs[arg.model_path]
Record == ret.value.result
Calls == ret.value.calls

NumericFields ==
    {"file_size_bytes", "context_length", "layer_count", "embedding_length", "head_count"}

\* the fields a strategy stores
StrategyFields ==
    {"architecture", "model_name", "context_length", "layer_count",
     "embedding_length", "head_count", "quantization"}

\* os.path.getsize succeeded and no strategy can run
NothingAvailable ==
    /\ ret.called
    /\ AnalysedFile.stat = "ok"
    /\ ~GGUF_READER_AVAILABLE
    /\ ~LLAMA_CPP_AVAILABLE

\* C2: for an existing, readable file with neither strategy available the
\* record has no error, has a warning, and has file_size_bytes.
C2_NothingAvailableWarns ==
    NothingAvailable =>
        /\ "error" \notin DOMAIN Record
        /\ "warning" \in DOMAIN Record
        /\ Len(Record["warning"]) > 0
        /\ "file_size_bytes" \in DOMAIN Record
        /\ Record["file_size_bytes"] = AnalysedFile.size

C2_Witness ==
    /\ NothingAvailable
    /\ AnalysedFile.size = 4301
    /\ "warning" \in DOMAIN Record
    /\ Record["warning"] = S_Install

\* the structured reader was called and raised
ReaderRaised ==
    /\ ret.called
    /\ AnalysedFile.stat = "ok"
    /\ GGUF_READER_AVAILABLE
    /\ AnalysedFile.reader_raises

\* what the full-load strategy stores for this file
FullLoadFields ==
    LlamaFields(AnalysedFile.metadata, ResultBefore(arg.model_path, AnalysedFile),
                DictGet(AnalysedFile.metadata, S_general_architecture, PyStr(Unknown)))

\* C3: when the structured reader raises, the full-load strategy (if the
\* library is there) is called next, and when it succeeds the record holds
\* the full-load strategy's fields and the file size and has no error.
C3_FallbackToFullLoad ==
    (ReaderRaised /\ LLAMA_CPP_AVAILABLE) =>
        /\ Calls = <<"getsize", "GGUFReader", "Llama">>
        /\ AnalysedFile.llama_raises = "no" =>
              /\ "error" \notin DOMAIN Record
              /\ StrategyFields \subseteq DOMAIN Record
              /\ \A k \in StrategyFields : Record[k] = FullLoadFields[k]
              /\ "file_size_bytes" \in DOMAIN Record
              /\ Record["file_size_bytes"] = AnalysedFile.size

C3_Witness ==
    /\ ReaderRaised
    /\ LLAMA_CPP_AVAILABLE
    /\ AnalysedFile.llama_raises = "no"
    /\ AnalysedFile.metadata = MetaFull
    /\ "layer_count" \in DOMAIN Record
    /\ Record["layer_count"] = PyStr(S_32)

\* C4: when os.path.getsize fails the record has error ("File not found"
\* for a missing file, "Permission denied" for a permission failure), no
\* strategy is called and no numeric field is in the record.
C4_StatFailureIsFatal ==
    (ret.called /\ AnalysedFile.stat # "ok") =>
        /\ "error" \in DOMAIN Record
        /\ AnalysedFile.stat = "FileNotFoundError" => Record["error"] = S_File_not_found
        /\ AnalysedFile.stat = "PermissionError" => Record["error"] = S_Permission_denied
        /\ Calls = <<"getsize">>
        /\ DOMAIN Record \cap NumericFields = {}

C4_Witness ==
    /\ ret.called
    /\ AnalysedFile.stat = "PermissionError"
    /\ GGUF_READER_AVAILABLE
    /\ LLAMA_CPP_AVAILABLE
    /\ Record["error"] = S_Permission_denied

\* C5: whatever fails (getsize, the structured reader, the full-load
\* strategy), _run_gguf_analysis returns a record and no exception leaves it.
C5_NoExceptionEscapes ==
    ret.called =>
        /\ ret.value.exc = NoExc
        /\ {"path", "filename"} \subseteq DOMAIN Record
        /\ Record["path"] = arg.model_path

\* os.path.getsize raised an OSError that is neither of the two named classes
C5_Witness ==
    /\ ret.called
    /\ AnalysedFile.stat = "OSError"
    /\ ret.value.exc = NoExc
    /\ "error" \in DOMAIN Record

\* field k of the record holds a value
Populated(k) ==
    /\ k \in DOMAIN Record
    /\ k # "file_size_bytes" => Record[k] # PyStr(Unknown)

AllNumericPopulated == \A k \in NumericFields : Populated(k)

\* C6 as claimed: every returned record has either all numeric fields
\* populated or error set, never both and never neither.
C6_ExactlyOneOfNumericOrError ==
    ret.called => (AllNumericPopulated <=> "error" \notin DOMAIN Record)

\* C6 as amended: a returned record never has both; with error set none of
\* the numeric fields is in it, without error the file size is in it, and
\* the other numeric fields may be missing or "unknown".
C6_ErrorExcludesNumericFields ==
    ret.called =>
        /\ ~(AllNumericPopulated /\ "error" \in DOMAIN Record)
        /\ "error" \in DOMAIN Record => DOMAIN Record \cap NumericFields = {}
        /\ "error" \notin DOMAIN Record => Populated("file_size_bytes")

\* a record with neither: the full-load strategy failed, only a warning
C6_Witness ==
    /\ ret.called
    /\ "error" \notin DOMAIN Record
    /\ "warning" \in DOMAIN Record
    /\ ~AllNumericPopulated
    /\ Calls = <<"getsize", "GGUFReader", "Llama">>

\* C7 as claimed: whichever strategy filled the record, the quantization is
\* what _guess_quantization gives for the filename; when the filename holds
\* a catalog token, a value from the file's metadata never replaces it.
C7_QuantizationFromFilename ==
    (ret.called /\ "quantization" \in DOMAIN Record
       /\ GuessQuantization(Record["filename"]) # Unknown)
    => Record["quantization"] = PyStr(GuessQuantization(Record["filename"]))

(***************************************************************************)
(* Claims on _start_analysis, under Spec                                   *)
(***************************************************************************)
\* the step in which the main loop runs _update_ui_after_analysis
Delivers == Len(after_queue) > 0 /\ after_queue' = Tail(after_queue)

\* C1 as claimed: whenever a record is handed to _update_ui_after_analysis,
\* its path is the scheduler's current path at that moment.
C1_NoStaleDelivery ==
    [][Delivers => PyStr(Head(after_queue)["path"]) = current_analysis_path]_vars

(***************************************************************************)
(* Further claims on get_field_value, under SpecDecode                     *)
(***************************************************************************)
\* C11: a multi-element array of integers in 0..255 whose UTF-8 decoding
\* holds no alphabetic character is returned as the same list: same
\* elements, same order.
C11_NonTextArrayUnchanged ==
    (ret.called /\ IsMultiByteArray(arg.field)
       /\ ~HasAlpha(DecodeCps(arg.field.payload.v)))
    => /\ ret.value.t = "list"
       /\ ret.value.v = arg.field.payload.v

\* three digits and zero bytes decode to text without letters
C11_Witness ==
    /\ ret.called
    /\ arg.field = [kind |-> "ndarray", payload |-> PyList(<<49, 0, 49>>)]
    /\ ret.value = PyList(<<49, 0, 49>>)

(***************************************************************************)
(* Further claims on _run_gguf_analysis, under SpecOrch                    *)
(***************************************************************************)
\* _analyze_with_llama_cpp was called and raised
FullLoadFailed ==
    /\ ret.called
    /\ Len(Calls) > 0
    /\ Calls[Len(Calls)] = "Llama"
    /\ AnalysedFile.llama_raises # "no"

\* C16: when _analyze_with_llama_cpp is called and raises, the record has a
\* warning that reports the failure, has no error, and still has the file
\* size and the fields stored before the exception.
C16_FullLoadFailureIsWarning ==
    FullLoadFailed =>
        /\ "error" \notin DOMAIN Record
        /\ "warning" \in DOMAIN Record
        /\ Record["warning"] = S_Metadata_extraction_failed \o S_bad_file
        /\ "file_size_bytes" \in DOMAIN Record
        /\ Record["file_size_bytes"] = AnalysedFile.size
        /\ AnalysedFile.llama_raises = "n_vocab" =>
              /\ StrategyFields \subseteq DOMAIN Record
              /\ \A k \in StrategyFields : Record[k] = FullLoadFields[k]

\* llm.n_vocab() raised after the metadata was stored
C16_Witness ==
    /\ FullLoadFailed
    /\ AnalysedFile.llama_raises = "n_vocab"
    /\ AnalysedFile.metadata = MetaFull
    /\ AnalysedFile.size = 640
    /\ "warning" \in DOMAIN Record
    /\ "architecture" \in DOMAIN Record
    /\ Record["architecture"] = PyStr(S_llama)

(***************************************************************************)
(* Strategy order                                                          *)
(***************************************************************************)
\* the structured reader was called and returned
ReaderSucceeded ==
    /\ ret.called
    /\ AnalysedFile.stat = "ok"
    /\ GGUF_READER_AVAILABLE
    /\ ~AnalysedFile.reader_raises

\* what the structured reader stores for this file
ReaderRecord ==
    ReaderResult(AnalysedFile.fields, ResultBefore(arg.model_path, AnalysedFile))

\* C17: GGUFReader is never called after Llama; when the gguf package is
\* there, Llama is called only after GGUFReader was called and raised; when
\* the reader succeeds its record is returned and Llama is not called.
C17_ReaderBeforeFullLoad ==
    ret.called =>
        /\ \A i, j \in 1..Len(Calls) :
              (Calls[i] = "GGUFReader" /\ Calls[j] = "Llama") => i < j
        /\ (GGUF_READER_AVAILABLE /\ \E j \in 1..Len(Calls) : Calls[j] = "Llama")
              => (Calls = <<"getsize", "GGUFReader", "Llama">> /\ AnalysedFile.reader_raises)
        /\ ReaderSucceeded =>
              /\ Calls = <<"getsize", "GGUFReader">>
              /\ Record = ReaderRecord

\* the reader succeeded while llama-cpp-python was there too
C17_Witness ==
    /\ ReaderSucceeded
    /\ LLAMA_CPP_AVAILABLE
    /\ AnalysedFile.llama_raises = "no"
    /\ Calls = <<"getsize", "GGUFReader">>
    /\ "vocab_size" \notin DOMAIN Record

(***************************************************************************)
(* Quantization in the record                                              *)
(***************************************************************************)
\* C18 as claimed: with neither library there, the record still has the
\* file size and the quantization _guess_quantization gives for the filename.
C18_QuantizationGuessWithoutLibraries ==
    NothingAvailable =>
        /\ "file_size_bytes" \in DOMAIN Record
        /\ Record["file_size_bytes"] = AnalysedFile.size
        /\ "quantization" \in DOMAIN Record
        /\ Record["quantization"] = PyStr(GuessQuantization(Record["filename"]))

\* no catalog token is in the filename
NoCatalogToken == CatalogHits(Record["filename"]) = {}

\* a strategy has stored the quantization
StoredQuantization ==
    /\ ret.called
    /\ "quantization" \in DOMAIN Record

\* general.file_type as the strategy that ran last can read it: a decoded
\* field for the structured reader, an entry of llm.metadata for Llama
FileTypeCode ==
    IF Calls[Len(Calls)] = "GGUFReader"
    THEN get_field_value(AnalysedFile.fields, S_general_file_type, PyNone)
    ELSE DictGet(AnalysedFile.metadata, S_general_file_type, PyNone)

\* C19 as claimed: when no catalog token is in the filename, the quantization
\* is "type_<code>" if the metadata has a file-type code and "unknown" if it
\* has none, whichever strategy read the metadata.
C19_FileTypeFallback ==
    (StoredQuantization /\ NoCatalogToken) =>
        Record["quantization"] =
            IF IsNone(FileTypeCode) THEN PyStr(Unknown)
            ELSE PyStr(S_type_ \o PyStrOf(FileTypeCode))

(***************************************************************************)
(* Where error comes from                                                  *)
(***************************************************************************)
\* C22: a record has error only when os.path.getsize raised, before any
\* strategy was called; when the structured reader or the full-load strategy
\* raises, the record has no error.
C22_ErrorOnlyFromStat ==
    ret.called =>
        /\ "error" \in DOMAIN Record
              => (AnalysedFile.stat # "ok" /\ Calls = <<"getsize">>)
        /\ (ReaderRaised \/ FullLoadFailed) => "error" \notin DOMAIN Record

\* both strategies were called and both raised
C22_Witness ==
    /\ ReaderRaised
    /\ FullLoadFailed
    /\ AnalysedFile.llama_raises = "load"
    /\ Calls = <<"getsize", "GGUFReader", "Llama">>
    /\ "error" \notin DOMAIN Record

(***************************************************************************)

(* Claims on _update_ui_after_analysis, under SpecUi                       *)
(***************************************************************************)
\* the record without key k
Without(r, k) == [x \in DOMAIN r \ {k} |-> r[x]]

\* the record shown has a warning and no error
ShownWithWarning ==
    /\ ret.called
    /\ "error" \notin DOMAIN arg.result
    /\ "warning" \in DOMAIN arg.result

\* C12 as claimed: for a record with a warning the text shown is the text
\* the same record gives without the warning, then the separator, the
\* warning sign and the warning; no Arch, Layers, Ctx, Size or Quant part is
\* lost.
C12_WarningIsAppended ==
    ShownWithWarning =>
        model_info_var = InfoText(Without(arg.result, "warning"))
                            \o S_Separator \o S_Warn \o arg.result["warning"]

\* field k of record r is not "unknown"
NotUnknown(r, k) ==
    /\ k \in DOMAIN r
    /\ k # "file_size_gb" => r[k] # PyStr(Unknown)

\* an integer n >= 1024 is shown as "<n div 1024>K"
ContextShown(ctx) ==
    IF ctx.t = "int" /\ ctx.v >= 1024 THEN IntToStr(ctx.v \div 1024) \o <<"K">>
    ELSE PyStrOf(ctx)

\* the part of the summary for field k, when the field is not "unknown"
PartFor(r, k) ==
    IF ~NotUnknown(r, k) THEN <<>>
    ELSE CASE k = "architecture" -> <<S_Arch \o PyStrOf(r[k])>>
           [] k = "layer_count" -> <<S_Layers \o PyStrOf(r[k])>>
           [] k = "context_length" -> <<S_Ctx \o ContextShown(r[k])>>
           [] k = "file_size_gb" -> <<S_Size \o FloatStr(r[k]) \o S_GB>>
           [] k = "quantization" -> <<S_Quant \o PyStrOf(r[k])>>

\* the parts in the order Arch, Layers, Ctx, Size, Quant
PartsInOrder(r) ==
    PartFor(r, "architecture") \o PartFor(r, "layer_count")
       \o PartFor(r, "context_length") \o PartFor(r, "file_size_gb")
       \o PartFor(r, "quantization")

\* the record shown has neither error nor warning
ShownPlain ==
    /\ ret.called
    /\ "error" \notin DOMAIN arg.result
    /\ "warning" \notin DOMAIN arg.result

\* C13 as claimed: the summary of a record without error or warning is the
\* parts of the fields that are not "unknown", in the order Arch, Layers,
\* Ctx, Size, Quant, joined by the separator.
C13_SummaryOfKnownParts ==
    ShownPlain => model_info_var = Join(S_Separator, PartsInOrder(arg.result))

(***************************************************************************)
(* Claims on _start_analysis and analysis_worker, under SpecSelect         *)
(***************************************************************************)
\* the step is a call _start_analysis(p)
Submits(p) == arg' = [fn |-> "_start_analysis", model_path |-> p]

\* C14: _start_analysis(p) while p is the current path starts no thread and
\* leaves the current path, the text shown, the stored result and the queued
\* callbacks as they are; for any other p it makes p the current path and
\* starts exactly one worker thread, for p.
C14_SamePathIsNoOp ==
    [][\A p \in Paths :
         Submits(p) =>
            IF current_analysis_path = PyStr(p)
            THEN UNCHANGED <<threads, current_analysis_path, model_info_var,
                             last_analysis_result, after_queue>>
            ELSE /\ threads' = Append(threads, [path |-> p, pc |-> "run", result |-> PyNone])
                 /\ current_analysis_path' = PyStr(p)]_vars

\* the first path was selected again while its worker was past the analysis
C14_Witness ==
    /\ arg = [fn |-> "_start_analysis", model_path |-> PathList[1]]
    /\ current_analysis_path = PyStr(PathList[1])
    /\ Len(threads) = 1
    /\ threads[1].pc = "check"

\* nothing of a request for p is left: its workers have ended and no
\* callback holding a record of p is queued
Consumed(p) ==
    /\ \A i \in 1..Len(threads) : threads[i].path = p => threads[i].pc \in {"done", "dead"}
    /\ \A j \in 1..Len(after_queue) : after_queue[j]["path"] # p

\* C15 as claimed: once the result for the current path was delivered the
\* request is consumed, and a later _start_analysis of any path, the same
\* path included, starts a new worker thread.
C15_ResubmitAfterDelivery ==
    [][\A p \in Paths :
         (Submits(p) /\ Consumed(p) /\ Len(threads) < MaxThreads)
         => threads' = Append(threads, [path |-> p, pc |-> "run", result |-> PyNone])]_vars

\* the step is made by a worker thread or by the queued callback
WorkerOrCallbackStep == arg'.fn \in {"analysis_worker", "_update_ui_after_analysis"}

\* where a worker thread can go from pc: the comparison of line 835 lies
\* between "check" and what follows, and is never passed a second time
PcSuccessors(pc) ==
    CASE pc = "run" -> {"run", "check", "dead"}
      [] pc = "check" -> {"check", "schedule", "done"}
      [] pc = "schedule" -> {"schedule", "done"}
      [] OTHER -> {pc}

\* C20: self.current_analysis_path changes only in a call of _start_analysis,
\* which sets it to the path selected; no step of a worker thread or of the
\* callback changes it; a worker passes the comparison of line 835 once,
\* after _run_gguf_analysis has returned.
C20_CurrentPathSingleWriter ==
    [][/\ WorkerOrCallbackStep => UNCHANGED current_analysis_path
       /\ current_analysis_path' # current_analysis_path
             => \E p \in Paths : Submits(p) /\ current_analysis_path' = PyStr(p)
       /\ \A i \in 1..Len(threads) :
             /\ threads'[i].path = threads[i].path
             /\ threads'[i].pc \in PcSuccessors(threads[i].pc)]_vars

\* the first worker found another path current and ended without delivery
C20_Witness ==
    /\ Len(threads) = 2
    /\ threads[1].pc = "done"
    /\ threads[2].pc = "run"
    /\ current_analysis_path = PyStr(threads[2].path)
    /\ arg = [fn |-> "analysis_worker", model_path |-> threads[1].path]
    /\ after_queue = <<>>
    /\ last_analysis_result = PyNone

(***************************************************************************)
(* Claims on the substring scan of _analyze_with_gguf_reader, under        *)
(* SpecReader                                                              *)
(***************************************************************************)
\* the positions of the keys whose name contains needle
NameMatches(needle) ==
    { i \in 1..Len(ReaderFieldsIn) : StrContains(needle, ReaderFieldsIn[i].key) }

\* neither "<arch>.<archKey>" nor a key of generic has a value, so the scan
\* for the field runs
ScanRuns(archKey, generic) ==
    /\ IsNone(ValueOf(DotKey(DetectedArch, archKey)))
    /\ \A g \in 1..Len(generic) : IsNone(ValueOf(generic[g]))

\* the least position of a non-empty set of positions
First(S) == CHOOSE i \in S : \A j \in S : i <= j

\* got is decided by the first key whose name contains needle
DecidedByFirstName(got, archKey, generic, needle) ==
    (ScanRuns(archKey, generic) /\ NameMatches(needle) # {})
    => got = OrUnknown(ValueOf(ReaderFieldsIn[First(NameMatches(needle))].key))

\* C21 as claimed: the scan ends at the first key whose name contains the
\* field's substring; that key alone decides the field, even when it decodes
\* to no value.
C21_ScanDecidedByFirstNameMatch ==
    ret.called /\ ret.value.exc = NoExc =>
        /\ DecidedByFirstName(ret.value.result["context_length"], S_context_length,
                              <<S_general_context_length>>, S_context_length)
        /\ DecidedByFirstName(ret.value.result["layer_count"], S_block_count, <<>>,
                              S_block_count)
        /\ DecidedByFirstName(ret.value.result["embedding_length"], S_embedding_length,
                              <<>>, S_embedding_length)
        /\ DecidedByFirstName(ret.value.result["head_count"], S_attention_head_count,
                              <<>>, S_head_count)

\* got is decided by the first key whose name contains needle and that
\* decodes to a value; keys before it without a value are passed over
DecidedByFirstValue(got, archKey, generic, needle) ==
    ScanRuns(archKey, generic)
    => /\ ScanHits(needle) # {}
          => got = ValueOf(ReaderFieldsIn[First(ScanHits(needle))].key)
       /\ ScanHits(needle) = {} => got = PyStr(Unknown)

\* C21 as amended: the scan ends at the first key, in the order of
\* reader.fields, whose name contains the field's substring and whose
\* decoded value is not None; that key decides the field, matching keys
\* before it that decode to no value are passed over, and without such a key
\* the field is "unknown".
C21_ScanDecidedByFirstValue ==
    ret.called /\ ret.value.exc = NoExc =>
        /\ DecidedByFirstValue(ret.value.result["context_length"], S_context_length,
                               <<S_general_context_length>>, S_context_length)
        /\ DecidedByFirstValue(ret.value.result["layer_count"], S_block_count, <<>>,
                               S_block_count)
        /\ DecidedByFirstValue(ret.value.result["embedding_length"], S_embedding_length,
                               <<>>, S_embedding_length)
        /\ DecidedByFirstValue(ret.value.result["head_count"], S_attention_head_count,
                               <<>>, S_head_count)

\* llama.context_length = [] listed before vit.context_length = [77] and
\* vit.block_count = [12], no architecture
C21_Witness ==
    /\ ret.called
    /\ ReaderFieldsIn = FieldsOf(<<5, 4, 7>>)
    /\ ret.value.result["context_length"] = PyInt(77)
    /\ ret.value.result["layer_count"] = PyInt(12)

(***************************************************************************)
(* Further claims on the scheduler, under SpecSelect                       *)
(***************************************************************************)
\* the worker threads that have not yet compared the paths (line 835) and
\* would pass the comparison now
LiveWorkers ==
    { i \in 1..Len(threads) :
        /\ threads[i].pc \in {"run", "check"}
        /\ current_analysis_path = PyStr(threads[i].path) }

\* C23 as claimed: at any time at most one worker in flight is live, that
\* is, would have its result delivered if it completed now.
C23_AtMostOneLiveWorker == Cardinality(LiveWorkers) <= 1

\* thread i has ended
Ended(i) == i \in 1..Len(threads) /\ threads[i].pc \in {"done", "dead"}

DecodeRaises(e) ==
    \/ e.field.kind = "raises"
    \/ /\ e.key = S_general_architecture
       /\ e.field.kind = "ndarray"
       /\ e.field.payload.t = "list_inf"
       /\ ListLen(e.field.payload) >= 2

\* the key/value section with the entries whose decoding raises left out
WithoutAnomalies(fields) == SelectSeq(fields, LAMBDA e : ~DecodeRaises(e))

\* C25: when decoding one metadata entry raises, the structured-reader
\* strategy still returns, without error, the record it returns for the same
\* file with that entry absent.
C25_DecodeAnomalyConfined ==
    (ret.called /\ \E i \in 1..Len(ReaderFieldsIn) : DecodeRaises(ReaderFieldsIn[i]))
    => /\ ret.value.exc = NoExc
       /\ "error" \notin DOMAIN ret.value.result
       /\ ret.value.result =
             ReaderResult(WithoutAnomalies(ReaderFieldsIn),
                          ResultBefore(arg.model_path, fs[arg.model_path]))

(***************************************************************************)
(* Claims on arrays of one element and of none, under SpecDecode           *)
(***************************************************************************)
\* the call decoded an array whose tolist() is the list l
DecodedList(l) ==
    /\ ret.called
    /\ arg.field.kind = "ndarray"
    /\ arg.field.payload = l

\* C26: an array of one element decodes to that element, an int or a float
\* and never a list or a str, whatever its value; an array of no element
\* decodes to no value (None).
C26_SingleElementElided ==
    /\ \A x \in ElemValues : DecodedList(PyList(<<x>>)) => ret.value = PyInt(x)
    /\ DecodedList(PyListNan(<<>>)) => ret.value = PyFloatNan
    /\ DecodedList([t |-> "list_inf", v |-> <<>>])
          => ret.value = [t |-> "float", v |-> "inf"]
    /\ DecodedList(PyList(<<>>)) => ret.value = PyNone

\* [65], the one byte of the text "A", decodes to the int 65
C26_Witness == DecodedList(PyList(<<65>>)) /\ ret.value = PyInt(65)

(***************************************************************************)
(* Claims comparing the two strategies, under SpecReader                   *)
(***************************************************************************)
\* every entry of the section decodes to an int or a str
PlainSection ==
    \A i \in 1..Len(ReaderFieldsIn) : ValueOf(ReaderFieldsIn[i].key).t \in {"int", "str"}

\* the metadata map of the same key/value set: each key with the text of its
\* value
MetadataOf(fields) ==
    [k \in {fields[i].key : i \in 1..Len(fields)} |->
        PyStr(PyStrOf(get_field_value(fields, k, PyNone)))]

\* what the full-load strategy stores for the file the reader was called on
FullLoadOfSame ==
    LlamaResult(MetadataOf(ReaderFieldsIn),
                ResultBefore(arg.model_path, fs[arg.model_path]))

SemanticFields ==
    {"architecture", "context_length", "layer_count", "embedding_length",
     "head_count", "quantization"}

\* C27: for the same key/value set and the same filename the full-load
\* strategy stores the same architecture, context length, layer count,
\* embedding length, head count and quantization as the structured-reader
\* strategy (compared as text, an int 4096 being the same as "4096").
C27_StrategiesAgree ==
    (ret.called /\ PlainSection) =>
        \A k \in SemanticFields :
            /\ k \in DOMAIN ret.value.result
            /\ k \in DOMAIN FullLoadOfSame
            /\ PyStrOf(ret.value.result[k]) = PyStrOf(FullLoadOfSame[k])

(***************************************************************************)
(* Claims on what the display settles on, under SpecFair                   *)
(***************************************************************************)
\* the text shown is the one _update_ui_after_analysis sets for p's record
ShowsRecordOf(p) == model_info_var = InfoText(run_gguf_analysis(p).result)

\* C28: once the selections have stopped, the text shown eventually is, and
\* from then on stays, the one for the record of the path selected last; in
\* particular it does not stay "Analyzing model...".
C28_DisplaySettlesOnLastSubmitted ==
    <>[](\A p \in Paths : current_analysis_path = PyStr(p) => ShowsRecordOf(p))

(***************************************************************************)
(* Claims on records without metadata, under SpecOrch                      *)
(***************************************************************************)
MetadataFields ==
    {"architecture", "context_length", "layer_count", "embedding_length", "head_count"}

\* the record has no error and none of the metadata fields
Degraded ==
    /\ ret.called
    /\ "error" \notin DOMAIN Record
    /\ \A k \in MetadataFields : k \notin DOMAIN Record

\* C29: a record returned without error and without the metadata fields
\* carries a warning.
C29_NoSilentDegradedRecord ==
    Degraded => ("warning" \in DOMAIN Record /\ Len(Record["warning"]) > 0)

(***************************************************************************)
(* Claims on the catalog as a whole, under SpecQuant                       *)
(***************************************************************************)
\* the call was on "<name>-<tok>.gguf" for a name of NameList that holds no
\* catalog entry
TokenAfterCleanName(tok) ==
    /\ ret.called
    /\ \E n \in 1..MaxNames :
          /\ CatalogHits(NameList[n]) = {}
          /\ arg.filename = NameList[n] \o <<"-">> \o tok \o <<".","g","g","u","f">>

\* C30: for each entry t of the catalog, _guess_quantization returns t for
\* "<name>-<t>.gguf" when <name> holds no catalog entry.
C30_EveryCatalogTokenRecognised ==
    \A i \in 1..Len(quant_types) :
        TokenAfterCleanName(quant_types[i]) => ret.value = quant_types[i]

====
